---- MODULE Spec2Model ----
(***************************************************************************)
(* Model of holidays/countries/united_kingdom.py: the UnitedKingdom        *)
(* holiday calendar.  One UnitedKingdom instance is modelled:              *)
(* its constructor arguments (subdiv, observed), its date -> name mapping  *)
(* and the years _populate has been called with.                           *)
(***************************************************************************)
EXTENDS Integers, Sequences, FiniteSets

VARIABLES subdiv, observed, hol, populated

vars == <<subdiv, observed, hol, populated>>

(***************************************************************************)
(* Bounds of the model.                                                    *)
(***************************************************************************)
MinYear == 1970
MaxYear == 2023
MaxYears == 3
MaxSpan == 2

Years == MinYear..MaxYear

(***************************************************************************)
(* holidays.constants                                                      *)
(***************************************************************************)
JAN == 1
MAR == 3
APR == 4
MAY == 5
JUN == 6
JUL == 7
AUG == 8
SEP == 9
NOV == 11
DEC == 12

MON == 0
TUE == 1
WED == 2
THU == 3
FRI == 4
SAT == 5
SUN == 6
WEEKEND == {SAT, SUN}

(***************************************************************************)
(* datetime.date: a date is the tuple <<year, month, day>>.  Arithmetic    *)
(* goes through the proleptic Gregorian ordinal, as in the datetime        *)
(* module (_ymd2ord, _ord2ymd).                                            *)
(***************************************************************************)
date(y, m, d) == <<y, m, d>>

is_leap(y) == y % 4 = 0 /\ (y % 100 # 0 \/ y % 400 = 0)

days_before_year(y) ==
    (y - 1) * 365 + (y - 1) \div 4 - (y - 1) \div 100 + (y - 1) \div 400

\* _DAYS_BEFORE_MONTH, with the leap day when leap
month_offset(leap, m) ==
    <<0, 31, 59, 90, 120, 151, 181, 212, 243, 273, 304, 334>>[m]
    + (IF leap /\ m > 2 THEN 1 ELSE 0)

days_before_month(y, m) == month_offset(is_leap(y), m)

toordinal(dt) == days_before_year(dt[1]) + days_before_month(dt[1], dt[2]) + dt[3]

fromordinal(n) ==
    LET n0 == n - 1
        n400 == n0 \div 146097
        r400 == n0 % 146097
        n100 == r400 \div 36524
        r100 == r400 % 36524
        n4 == r100 \div 1461
        r4 == r100 % 1461
        n1 == r4 \div 365
        r1 == r4 % 365
        year == n400 * 400 + 1 + n100 * 100 + n4 * 4 + n1
        leapyear == n1 = 3 /\ (n4 # 24 \/ n100 = 3)
        month0 == (r1 + 50) \div 32
        preceding0 == month_offset(leapyear, month0)
        month == IF preceding0 > r1 THEN month0 - 1 ELSE month0
        preceding == month_offset(leapyear, month)
    IN  IF n1 = 4 \/ n100 = 4
        THEN <<year - 1, 12, 31>>
        ELSE <<year, month, r1 - preceding + 1>>

weekday(dt) == (toordinal(dt) + 6) % 7

\* date + relativedelta(days=k)
rd_days(dt, k) == fromordinal(toordinal(dt) + k)

\* date + relativedelta(weekday=wd(nth)), nth = +1 or -1
rd_weekday(dt, wd, nth) ==
    IF nth > 0
    THEN rd_days(dt, (nth - 1) * 7 + ((7 - weekday(dt) + wd) % 7))
    ELSE rd_days(dt, 0 - ((0 - nth - 1) * 7 + ((weekday(dt) - wd + 7) % 7)))

\* dateutil.easter.easter(year), method EASTER_WESTERN
easter(year) ==
    LET g == year % 19
        c == year \div 100
        h == (c - c \div 4 - (8 * c + 13) \div 25 + 19 * g + 15) % 30
        i == h - (h \div 28) * (1 - (h \div 28) * (29 \div (h + 1)) * ((21 - g) \div 11))
        j == (year + year \div 4 + i + 2 - c + c \div 4) % 7
        p == i - j
        d == 1 + ((p + 27 + (p + 6) \div 40) % 31)
        m == 3 + (p + 26) \div 30
    IN  date(year, m, d)

(***************************************************************************)
(* The mapping of a HolidayBase instance: a function from dates to names.  *)
(* A name is the sequence of the string pieces it is concatenated from,    *)
(* e.g. <<"New Year Holiday", " [Scotland]", " (Observed)">>.              *)
(***************************************************************************)
EmptyMap == <<>>

\* self[key] = value
SetItem(m, key, value) ==
    [k \in (DOMAIN m) \cup {key} |-> IF k = key THEN value ELSE m[k]]

special_holidays(year) ==
    CASE year = 1977 -> <<<<JUN, 7, "Silver Jubilee of Elizabeth II">>>>
      [] year = 1981 -> <<<<JUL, 29, "Wedding of Charles and Diana">>>>
      [] year = 1999 -> <<<<DEC, 31, "Millennium Celebrations">>>>
      [] year = 2002 -> <<<<JUN, 3, "Golden Jubilee of Elizabeth II">>>>
      [] year = 2011 -> <<<<APR, 29, "Wedding of William and Catherine">>>>
      [] year = 2012 -> <<<<JUN, 5, "Diamond Jubilee of Elizabeth II">>>>
      [] year = 2022 -> <<<<JUN, 3, "Platinum Jubilee of Elizabeth II">>,
                          <<SEP, 19, "State Funeral of Queen Elizabeth II">>>>
      [] OTHER -> <<>>

subdivisions == {"UK", "England", "Northern Ireland", "Scotland", "Wales"}

\* super()._populate(year): the special occasions of the year
RECURSIVE AddSpecial(_, _, _, _)
AddSpecial(m, year, sp, i) ==
    IF i > Len(sp) THEN m
    ELSE AddSpecial(SetItem(m, date(year, sp[i][1], sp[i][2]), <<sp[i][3]>>),
                    year, sp, i + 1)

HolidayBase_populate(m, year) == AddSpecial(m, year, special_holidays(year), 1)

(***************************************************************************)
(* UnitedKingdom._populate, rule by rule.  Each operator takes the mapping *)
(* built so far and returns the mapping after the rule's assignments.      *)
(***************************************************************************)
Observed(name) == name \o <<" (Observed)">>

\* Variant of NewYearsDay: a Saturday is observed on the preceding Friday
NewYearsDay_SaturdayToFriday(m, year, obs) ==
    IF year >= 1974
    THEN LET name == <<"New Year's Day">>
             m1 == SetItem(m, date(year, JAN, 1), name)
         IN  IF obs /\ weekday(date(year, JAN, 1)) = SUN
             THEN SetItem(m1, rd_days(date(year, JAN, 1), 1), Observed(name))
             ELSE IF obs /\ weekday(date(year, JAN, 1)) = SAT
             THEN SetItem(m1, rd_days(date(year, JAN, 1), -1), Observed(name))
             ELSE m1
    ELSE m

\* Variant of NewYearsDay: a Saturday is shifted by one day only
NewYearsDay_SaturdayPlusOne(m, year, obs) ==
    IF year >= 1974
    THEN LET name == <<"New Year's Day">>
             m1 == SetItem(m, date(year, JAN, 1), name)
         IN  IF obs /\ weekday(date(year, JAN, 1)) \in WEEKEND
             THEN SetItem(m1, rd_days(date(year, JAN, 1), 1), Observed(name))
             ELSE m1
    ELSE m

\* New Year's Day
NewYearsDay(m, year, obs) ==
    IF year >= 1974
    THEN LET name == <<"New Year's Day">>
             m1 == SetItem(m, date(year, JAN, 1), name)
         IN  IF obs /\ weekday(date(year, JAN, 1)) = SUN
             THEN SetItem(m1, rd_days(date(year, JAN, 1), 1), Observed(name))
             ELSE IF obs /\ weekday(date(year, JAN, 1)) = SAT
             THEN SetItem(m1, rd_days(date(year, JAN, 1), 2), Observed(name))
             ELSE m1
    ELSE m

\* Variant of NewYearHoliday: a weekend is observed on the next Monday
NewYearHoliday_NextMonday(m, year, sd, obs) ==
    IF sd \in {"UK", "Scotland"}
    THEN LET name == <<"New Year Holiday">>
                     \o (IF sd = "UK" THEN <<" [Scotland]">> ELSE <<>>)
             m1 == SetItem(m, date(year, JAN, 2), name)
         IN  IF obs /\ weekday(date(year, JAN, 2)) \in WEEKEND
             THEN SetItem(m1, rd_weekday(date(year, JAN, 2), MON, 1),
                          Observed(name))
             ELSE IF obs /\ weekday(date(year, JAN, 2)) = MON
             THEN SetItem(m1, rd_days(date(year, JAN, 2), 1), Observed(name))
             ELSE m1
    ELSE m

\* New Year Holiday
NewYearHoliday(m, year, sd, obs) ==
    IF sd \in {"UK", "Scotland"}
    THEN LET name == <<"New Year Holiday">>
                     \o (IF sd = "UK" THEN <<" [Scotland]">> ELSE <<>>)
             m1 == SetItem(m, date(year, JAN, 2), name)
         IN  IF obs /\ weekday(date(year, JAN, 2)) \in WEEKEND
             THEN SetItem(m1, rd_days(date(year, JAN, 2), 2), Observed(name))
             ELSE IF obs /\ weekday(date(year, JAN, 2)) = MON
             THEN SetItem(m1, rd_days(date(year, JAN, 2), 1), Observed(name))
             ELSE m1
    ELSE m

\* Variant of StPatricksDay: only a Sunday is observed
StPatricksDay_SundayOnly(m, year, sd, obs) ==
    IF sd \in {"UK", "Northern Ireland"}
    THEN LET name == <<"St. Patrick's Day">>
                     \o (IF sd = "UK" THEN <<" [Northern Ireland]">> ELSE <<>>)
             m1 == SetItem(m, date(year, MAR, 17), name)
         IN  IF obs /\ weekday(date(year, MAR, 17)) = SUN
             THEN SetItem(m1, rd_weekday(date(year, MAR, 17), MON, 1),
                          Observed(name))
             ELSE m1
    ELSE m

\* St. Patrick's Day
StPatricksDay(m, year, sd, obs) ==
    IF sd \in {"UK", "Northern Ireland"}
    THEN LET name == <<"St. Patrick's Day">>
                     \o (IF sd = "UK" THEN <<" [Northern Ireland]">> ELSE <<>>)
             m1 == SetItem(m, date(year, MAR, 17), name)
         IN  IF obs /\ weekday(date(year, MAR, 17)) \in WEEKEND
             THEN SetItem(m1, rd_weekday(date(year, MAR, 17), MON, 1),
                          Observed(name))
             ELSE m1
    ELSE m

\* Battle of the Boyne
BattleOfTheBoyne(m, year, sd) ==
    IF sd \in {"UK", "Northern Ireland"}
    THEN LET name == <<"Battle of the Boyne">>
                     \o (IF sd = "UK" THEN <<" [Northern Ireland]">> ELSE <<>>)
         IN  SetItem(m, date(year, JUL, 12), name)
    ELSE m

\* Variant of SummerBankHoliday: the rule is left out of the "UK" mapping
SummerBankHoliday_ScotlandOnly(m, year, sd) ==
    IF sd = "Scotland"
    THEN SetItem(m, rd_weekday(date(year, AUG, 1), MON, 1),
                 <<"Summer Bank Holiday">>)
    ELSE m

\* Summer bank holiday (first Monday in August)
SummerBankHoliday(m, year, sd) ==
    IF sd \in {"UK", "Scotland"}
    THEN LET name == <<"Summer Bank Holiday">>
                     \o (IF sd = "UK" THEN <<" [Scotland]">> ELSE <<>>)
         IN  SetItem(m, rd_weekday(date(year, AUG, 1), MON, 1), name)
    ELSE m

\* St. Andrew's Day
StAndrewsDay(m, year, sd) ==
    IF sd \in {"UK", "Scotland"}
    THEN LET name == <<"St. Andrew's Day">>
                     \o (IF sd = "UK" THEN <<" [Scotland]">> ELSE <<>>)
         IN  SetItem(m, date(year, NOV, 30), name)
    ELSE m

\* Christmas Day
ChristmasDay(m, year, obs) ==
    LET name == <<"Christmas Day">>
        m1 == SetItem(m, date(year, DEC, 25), name)
    IN  IF obs /\ weekday(date(year, DEC, 25)) = SAT
        THEN SetItem(m1, date(year, DEC, 27), Observed(name))
        ELSE IF obs /\ weekday(date(year, DEC, 25)) = SUN
        THEN SetItem(m1, date(year, DEC, 27), Observed(name))
        ELSE m1

(***************************************************************************)
(* UnitedKingdom._country_specific, rule by rule.                          *)
(***************************************************************************)
\* Good Friday
GoodFriday(m, year) ==
    SetItem(m, rd_weekday(easter(year), FRI, -1), <<"Good Friday">>)

\* Easter Monday
EasterMonday(m, year, sd) ==
    IF sd # "Scotland"
    THEN LET name == <<"Easter Monday">>
                     \o (IF sd = "UK"
                         THEN <<" [England/Wales/Northern Ireland]">>
                         ELSE <<>>)
         IN  SetItem(m, rd_weekday(easter(year), MON, 1), name)
    ELSE m

\* Variant of MayDay: a Monday anchor moves to the Monday after it
MayDay_MondayNextWeek(m, year) ==
    IF year >= 1978
    THEN LET name == <<"May Day">>
         IN  IF year = 2020
             THEN SetItem(m, date(year, MAY, 8), name)
             ELSE LET dt == IF year = 1995 THEN date(year, MAY, 8)
                                           ELSE date(year, MAY, 1)
                  IN  SetItem(m, rd_days(dt, 7 - weekday(dt)), name)
    ELSE m

\* May Day bank holiday (first Monday in May)
MayDay(m, year) ==
    IF year >= 1978
    THEN LET name == <<"May Day">>
         IN  IF year = 2020
             THEN SetItem(m, date(year, MAY, 8), name)
             ELSE LET dt == IF year = 1995 THEN date(year, MAY, 8)
                                           ELSE date(year, MAY, 1)
                      a == IF weekday(dt) = MON THEN SetItem(m, dt, name) ELSE m
                      b == IF weekday(dt) = TUE
                           THEN SetItem(a, rd_days(dt, 6), name) ELSE a
                      c == IF weekday(dt) = WED
                           THEN SetItem(b, rd_days(dt, 5), name) ELSE b
                      d == IF weekday(dt) = THU
                           THEN SetItem(c, rd_days(dt, 4), name) ELSE c
                      e == IF weekday(dt) = FRI
                           THEN SetItem(d, rd_days(dt, 3), name) ELSE d
                      f == IF weekday(dt) = SAT
                           THEN SetItem(e, rd_days(dt, 2), name) ELSE e
                  IN  IF weekday(dt) = SUN
                      THEN SetItem(f, rd_days(dt, 1), name) ELSE f
    ELSE m

\* Variant of SpringBankHoliday: the 2022 override is put on 3 June
SpringBankHoliday_June3(m, year) ==
    LET name == <<"Spring Bank Holiday">>
    IN  IF year = 2012 THEN SetItem(m, date(year, JUN, 4), name)
        ELSE IF year = 2022 THEN SetItem(m, date(year, JUN, 3), name)
        ELSE IF year >= 1971
        THEN SetItem(m, rd_weekday(date(year, MAY, 31), MON, -1), name)
        ELSE m

\* Variant of SpringBankHoliday: the general rule also runs in override years
SpringBankHoliday_NoElif(m, year) ==
    LET name == <<"Spring Bank Holiday">>
        m1 == IF year = 2012 THEN SetItem(m, date(year, JUN, 4), name) ELSE m
        m2 == IF year = 2022 THEN SetItem(m1, date(year, JUN, 2), name) ELSE m1
    IN  IF year >= 1971
        THEN SetItem(m2, rd_weekday(date(year, MAY, 31), MON, -1), name)
        ELSE m2

\* Spring bank holiday (last Monday in May)
SpringBankHoliday(m, year) ==
    LET name == <<"Spring Bank Holiday">>
    IN  IF year = 2012 THEN SetItem(m, date(year, JUN, 4), name)
        ELSE IF year = 2022 THEN SetItem(m, date(year, JUN, 2), name)
        ELSE IF year >= 1971
        THEN SetItem(m, rd_weekday(date(year, MAY, 31), MON, -1), name)
        ELSE m

\* Late Summer bank holiday (last Monday in August)
LateSummerBankHoliday(m, year, sd) ==
    IF sd # "Scotland" /\ year >= 1971
    THEN LET name == <<"Late Summer Bank Holiday">>
                     \o (IF sd = "UK"
                         THEN <<" [England/Wales/Northern Ireland]">>
                         ELSE <<>>)
         IN  SetItem(m, rd_weekday(date(year, AUG, 31), MON, -1), name)
    ELSE m

\* Variant of BoxingDay: a Sunday is observed on the Monday after it
BoxingDay_NextMonday(m, year, obs) ==
    LET name == <<"Boxing Day">>
        m1 == SetItem(m, date(year, DEC, 26), name)
    IN  IF obs /\ weekday(date(year, DEC, 26)) = SAT
        THEN SetItem(m1, date(year, DEC, 28), Observed(name))
        ELSE IF obs /\ weekday(date(year, DEC, 26)) = SUN
        THEN SetItem(m1, date(year, DEC, 27), Observed(name))
        ELSE m1

\* Boxing Day
BoxingDay(m, year, obs) ==
    LET name == <<"Boxing Day">>
        m1 == SetItem(m, date(year, DEC, 26), name)
    IN  IF obs /\ weekday(date(year, DEC, 26)) = SAT
        THEN SetItem(m1, date(year, DEC, 28), Observed(name))
        ELSE IF obs /\ weekday(date(year, DEC, 26)) = SUN
        THEN SetItem(m1, date(year, DEC, 28), Observed(name))
        ELSE m1

country_specific(m, year, sd, obs) ==
    BoxingDay(
      LateSummerBankHoliday(
        SpringBankHoliday(
          MayDay(
            EasterMonday(
              GoodFriday(m, year),
              year, sd),
            year),
          year),
        year, sd),
      year, obs)

\* _additional_holidays: only acts for the deprecated subdivision
\* "Isle of Man", which is not one of the declared subdivisions
additional_holidays(m, year, sd) == m

\* The mapping after self._populate(year) on an instance whose mapping is m
populate(m, year, sd, obs) ==
    LET m0 == HolidayBase_populate(m, year)
        m1 == NewYearsDay(m0, year, obs)
        m2 == NewYearHoliday(m1, year, sd, obs)
        m3 == StPatricksDay(m2, year, sd, obs)
        m4 == BattleOfTheBoyne(m3, year, sd)
        m5 == SummerBankHoliday(m4, year, sd)
        m6 == StAndrewsDay(m5, year, sd)
        m7 == ChristmasDay(m6, year, obs)
        m8 == country_specific(m7, year, sd, obs)
    IN  additional_holidays(m8, year, sd)

(***************************************************************************)
(* The state machine: construction, then calls of _populate.               *)
(***************************************************************************)
Init ==
    /\ subdiv \in subdivisions
    /\ observed \in BOOLEAN
    /\ hol = EmptyMap
    /\ populated = {}

\* self._populate(year)
Populate(year) ==
    /\ Cardinality(populated \cup {year}) <= MaxYears
    /\ \A p \in populated : year - p \in (0 - MaxSpan)..MaxSpan
    /\ hol' = populate(hol, year, subdiv, observed)
    /\ populated' = populated \cup {year}
    /\ UNCHANGED <<subdiv, observed>>

Next == \E year \in Years : Populate(year)

Spec == Init /\ [][Next]_vars

(***************************************************************************)
(* Vocabulary of the properties.                                           *)
(***************************************************************************)
Regions == {"England", "Wales", "Scotland", "Northern Ireland"}

Qualifiers == {" [Scotland]", " [Northern Ireland]",
               " [England/Wales/Northern Ireland]"}

QualifierRegions(q) ==
    CASE q = " [Scotland]" -> {"Scotland"}
      [] q = " [Northern Ireland]" -> {"Northern Ireland"}
      [] q = " [England/Wales/Northern Ireland]" ->
             {"England", "Wales", "Northern Ireland"}

HasQualifier(name) == \E i \in 1..Len(name) : name[i] \in Qualifiers

QualifierOf(name) == name[CHOOSE i \in 1..Len(name) : name[i] \in Qualifiers]

IsObserved(name) == name[Len(name)] = " (Observed)"

\* The entries of mapping m whose date lies in year y
YearMap(m, y) == [d \in {k \in DOMAIN m : k[1] = y} |-> m[d]]

\* The mapping of a fresh instance after a single _populate(y)
Fresh(y, sd, obs) == populate(EmptyMap, y, sd, obs)

\* The dates of year y that hold exactly the name nm
DatesNamed(y, nm) == {d \in DOMAIN hol : d[1] = y /\ hol[d] = nm}

\* The dates of year y whose name starts with the piece base
DatesOf(y, base) == {d \in DOMAIN hol : d[1] = y /\ hol[d][1] = base}

\* The Mondays among the days lo..hi of month mo of year y
MondaysIn(y, mo, lo, hi) ==
    {date(y, mo, k) : k \in {j \in lo..hi : weekday(date(y, mo, j)) = MON}}

\* The name a region-restricted holiday carries in subdivision sd
Decorated(base, qualifier, sd) ==
    IF sd = "UK" THEN <<base, qualifier>> ELSE <<base>>

\* The holidays that have an observed rule, with their raw dates, as far
\* as they apply to year y and subdivision sd
ObservedRules(y, sd) ==
    (IF y >= 1974
     THEN {[name |-> <<"New Year's Day">>, raw |-> date(y, JAN, 1)]}
     ELSE {})
    \cup (IF sd \in {"UK", "Scotland"}
          THEN {[name |-> Decorated("New Year Holiday", " [Scotland]", sd),
                 raw |-> date(y, JAN, 2)]}
          ELSE {})
    \cup (IF sd \in {"UK", "Northern Ireland"}
          THEN {[name |-> Decorated("St. Patrick's Day",
                                    " [Northern Ireland]", sd),
                 raw |-> date(y, MAR, 17)]}
          ELSE {})
    \cup {[name |-> <<"Christmas Day">>, raw |-> date(y, DEC, 25)],
          [name |-> <<"Boxing Day">>, raw |-> date(y, DEC, 26)]}

\* The raw date, in year y, of the holiday whose name starts with base
RawDate(base, y) ==
    CASE base = "New Year's Day" -> date(y, JAN, 1)
      [] base = "New Year Holiday" -> date(y, JAN, 2)
      [] base = "St. Patrick's Day" -> date(y, MAR, 17)
      [] base = "Christmas Day" -> date(y, DEC, 25)
      [] base = "Boxing Day" -> date(y, DEC, 26)

SpecialNames ==
    {"Silver Jubilee of Elizabeth II", "Wedding of Charles and Diana",
     "Millennium Celebrations", "Golden Jubilee of Elizabeth II",
     "Wedding of William and Catherine", "Diamond Jubilee of Elizabeth II",
     "Platinum Jubilee of Elizabeth II",
     "State Funeral of Queen Elizabeth II"}

SpecialYears == {1977, 1981, 1999, 2002, 2011, 2012, 2022}

(***************************************************************************)
(* C1.  The dates of the "UK" mapping for a year are the union of the      *)
(* dates of the mappings of England, Wales, Scotland and Northern Ireland  *)
(* for the same year and observed flag: the UK instance holds exactly the  *)
(* union, and a region's instance holds only dates the UK mapping has.     *)
(***************************************************************************)
C1_UnionOfRegions ==
    \A y \in populated :
        /\ subdiv = "UK" =>
              DOMAIN YearMap(hol, y)
                  = UNION {DOMAIN Fresh(y, r, observed) : r \in Regions}
        /\ subdiv \in Regions =>
              DOMAIN YearMap(hol, y) \subseteq DOMAIN Fresh(y, "UK", observed)

C1_Witness ==
    /\ subdiv = "UK"
    /\ \E y \in populated :
          /\ date(y, NOV, 30) \in DOMAIN hol
          /\ date(y, JUL, 12) \in DOMAIN hol
          /\ date(y, NOV, 30) \notin DOMAIN Fresh(y, "England", observed)
          /\ date(y, JUL, 12) \notin DOMAIN Fresh(y, "Scotland", observed)

(***************************************************************************)
(* C2.  In the "UK" mapping every entry is labeled by its owning regions:  *)
(* a name with a bracketed qualifier lies on a date that is a holiday in   *)
(* exactly the regions the qualifier names, a name without qualifier lies  *)
(* on a date that is a holiday in all four regions; a single-region        *)
(* mapping never contains a qualifier.                                     *)
(***************************************************************************)
C2_LabeledByOwners ==
    \A d \in DOMAIN hol :
        LET owners == {r \in Regions : d \in DOMAIN Fresh(d[1], r, observed)}
        IN  /\ subdiv = "UK" =>
                  IF HasQualifier(hol[d])
                  THEN owners = QualifierRegions(QualifierOf(hol[d]))
                  ELSE owners = Regions
            /\ subdiv \in Regions => ~HasQualifier(hol[d])

(***************************************************************************)
(* C3 as stated.  For each holiday with an observed rule, where it         *)
(* applies: with observed set, a raw date on Saturday gives exactly one    *)
(* "<name> (Observed)" entry, on the following Monday, and a raw date on   *)
(* Monday to Friday gives none; with observed unset there is none.         *)
(***************************************************************************)
C3_Original ==
    \A y \in populated : \A r \in ObservedRules(y, subdiv) :
        LET obs == DatesNamed(y, Observed(r.name))
        IN  /\ observed /\ weekday(r.raw) = SAT => obs = {rd_days(r.raw, 2)}
            /\ observed /\ weekday(r.raw) \in MON..FRI => obs = {}
            /\ ~observed => obs = {}

(***************************************************************************)
(* C3 as amended.  As C3, except that New Year Holiday with 2 January on   *)
(* a Monday does get one "(Observed)" entry, on 3 January.                 *)
(***************************************************************************)
C3_ObservedEntries ==
    \A y \in populated : \A r \in ObservedRules(y, subdiv) :
        LET obs == DatesNamed(y, Observed(r.name))
            nyhMonday == r.name[1] = "New Year Holiday" /\ weekday(r.raw) = MON
        IN  /\ observed /\ weekday(r.raw) = SAT => obs = {rd_days(r.raw, 2)}
            /\ observed /\ weekday(r.raw) \in MON..FRI /\ ~nyhMonday => obs = {}
            /\ observed /\ nyhMonday => obs = {date(y, JAN, 3)}
            /\ ~observed => obs = {}

C3_Witness ==
    /\ observed
    /\ \E y \in populated :
          /\ weekday(date(y, MAR, 17)) = SAT
          /\ date(y, MAR, 19) \in DOMAIN hol
          /\ IsObserved(hol[date(y, MAR, 19)])
    /\ \E y \in populated :
          /\ weekday(date(y, JAN, 2)) = MON
          /\ date(y, JAN, 3) \in DOMAIN hol
          /\ IsObserved(hol[date(y, JAN, 3)])

(***************************************************************************)
(* C4.  The entries of a year are a function of (year, subdivision,        *)
(* observed) alone: after any sequence of _populate calls the entries      *)
(* dated in year y are exactly those of a single _populate(y) on a fresh   *)
(* instance if y was populated, and none otherwise.                        *)
(***************************************************************************)
C4_PureFunctionOfYear ==
    \A y \in (MinYear - 1)..(MaxYear + 1) :
        YearMap(hol, y) = IF y \in populated
                          THEN Fresh(y, subdiv, observed)
                          ELSE EmptyMap

C4_Witness ==
    /\ Cardinality(populated) >= 2
    /\ \A y \in populated : DOMAIN YearMap(hol, y) # {}

(***************************************************************************)
(* C5.  In a year listed in special_holidays every listed date carries     *)
(* its listed name, no "(Observed)" entry exists for a special name, and   *)
(* a special name occurs only on its listed date of its listed year.       *)
(***************************************************************************)
C5_SpecialHolidays ==
    \A y \in populated :
        LET sp == special_holidays(y)
        IN  /\ y \in SpecialYears <=> Len(sp) > 0
            /\ \A i \in 1..Len(sp) :
                  /\ date(y, sp[i][1], sp[i][2]) \in DOMAIN hol
                  /\ hol[date(y, sp[i][1], sp[i][2])] = <<sp[i][3]>>
            /\ \A d \in DOMAIN YearMap(hol, y) :
                  hol[d][1] \in SpecialNames =>
                      /\ ~IsObserved(hol[d])
                      /\ \E i \in 1..Len(sp) :
                            /\ d = date(y, sp[i][1], sp[i][2])
                            /\ hol[d] = <<sp[i][3]>>

C5_Witness ==
    /\ 2022 \in populated
    /\ 2021 \in populated
    /\ hol[date(2022, JUN, 3)] = <<"Platinum Jubilee of Elizabeth II">>
    /\ hol[date(2022, SEP, 19)] = <<"State Funeral of Queen Elizabeth II">>

(***************************************************************************)
(* C6.  Per-year overrides replace the general rule for their year only:   *)
(* "Spring Bank Holiday" is the single entry on 4 June in 2012, on 2 June  *)
(* in 2022 and on the last Monday of May in any other year >= 1971; "May   *)
(* Day" is the single entry on 8 May in 2020, on the first Monday on or    *)
(* after 8 May in 1995 and on the first Monday of May in any other year    *)
(* >= 1978.                                                                *)
(***************************************************************************)
C6_PerYearOverrides ==
    \A y \in populated :
        /\ y >= 1971 =>
              DatesOf(y, "Spring Bank Holiday")
                  = IF y = 2012 THEN {date(y, JUN, 4)}
                    ELSE IF y = 2022 THEN {date(y, JUN, 2)}
                    ELSE MondaysIn(y, MAY, 25, 31)
        /\ y >= 1978 =>
              DatesOf(y, "May Day")
                  = IF y = 2020 THEN {date(y, MAY, 8)}
                    ELSE IF y = 1995 THEN MondaysIn(y, MAY, 8, 14)
                    ELSE MondaysIn(y, MAY, 1, 7)

C6_Witness ==
    /\ 2020 \in populated
    /\ 2022 \in populated
    /\ hol[date(2020, MAY, 8)] = <<"May Day">>
    /\ hol[date(2022, JUN, 2)] = <<"Spring Bank Holiday">>

(***************************************************************************)
(* C7.  Weekday-relative holidays resolve to the right occurrence:         *)
(* "Summer Bank Holiday" (UK, Scotland) is the Monday in 1..7 August,      *)
(* "May Day" in a non-override year >= 1978 the Monday in 1..7 May, "Late  *)
(* Summer Bank Holiday" (year >= 1971, not Scotland) the Monday in 25..31  *)
(* August; each is the 1st, 1st, 31st itself when that day is a Monday.    *)
(***************************************************************************)
C7_WeekdayRelative ==
    \A y \in populated :
        /\ subdiv \in {"UK", "Scotland"} =>
              /\ DatesOf(y, "Summer Bank Holiday") = MondaysIn(y, AUG, 1, 7)
              /\ Cardinality(MondaysIn(y, AUG, 1, 7)) = 1
              /\ weekday(date(y, AUG, 1)) = MON =>
                    DatesOf(y, "Summer Bank Holiday") = {date(y, AUG, 1)}
        /\ y >= 1978 /\ y \notin {1995, 2020} =>
              /\ DatesOf(y, "May Day") = MondaysIn(y, MAY, 1, 7)
              /\ Cardinality(MondaysIn(y, MAY, 1, 7)) = 1
              /\ weekday(date(y, MAY, 1)) = MON =>
                    DatesOf(y, "May Day") = {date(y, MAY, 1)}
        /\ y >= 1971 /\ subdiv # "Scotland" =>
              /\ DatesOf(y, "Late Summer Bank Holiday")
                     = MondaysIn(y, AUG, 25, 31)
              /\ Cardinality(MondaysIn(y, AUG, 25, 31)) = 1
              /\ weekday(date(y, AUG, 31)) = MON =>
                    DatesOf(y, "Late Summer Bank Holiday") = {date(y, AUG, 31)}

C7_Witness ==
    /\ subdiv = "UK"
    /\ \E y \in populated :
          /\ weekday(date(y, AUG, 1)) = MON
          /\ DatesOf(y, "Summer Bank Holiday") = {date(y, AUG, 1)}
    /\ \E y \in populated :
          /\ y >= 1978
          /\ weekday(date(y, MAY, 1)) = MON
          /\ DatesOf(y, "May Day") = {date(y, MAY, 1)}

\* The dates New Year's Day and its observed substitute occupy in year y
NewYearsDayDates(y) == DOMAIN NewYearsDay(EmptyMap, y, observed)

\* The first date after dt, among the n following days, that satisfies
\* neither "weekend" nor "occupied by New Year's Day or its substitute"
FirstFreeWeekdayAfter(dt, n) ==
    LET free == {k \in 1..n :
                    /\ weekday(rd_days(dt, k)) \in MON..FRI
                    /\ rd_days(dt, k) \notin NewYearsDayDates(dt[1])}
    IN  rd_days(dt, CHOOSE k \in free : \A j \in free : k <= j)

(***************************************************************************)
(* C8 as stated.  For "New Year Holiday" with observed set: an observed    *)
(* entry exists only when 2 January is on a weekend, and then it lies on   *)
(* the next Monday after 2 January, or one day later when that Monday is   *)
(* already the date of New Year's Day or of its observed substitute.       *)
(***************************************************************************)
C8_Original ==
    observed /\ subdiv \in {"UK", "Scotland"} =>
        \A y \in populated :
            LET jan2 == date(y, JAN, 2)
                obs == DatesNamed(y, Observed(Decorated("New Year Holiday",
                                                        " [Scotland]", subdiv)))
                monday == rd_weekday(rd_days(jan2, 1), MON, 1)
                target == IF monday \in NewYearsDayDates(y)
                          THEN rd_days(monday, 1) ELSE monday
            IN  /\ obs # {} => weekday(jan2) \in WEEKEND
                /\ weekday(jan2) \in WEEKEND => obs = {target}

(***************************************************************************)
(* C8 as amended.  For "New Year Holiday" with observed set: an observed   *)
(* entry exists exactly when 2 January is a Saturday, Sunday or Monday;    *)
(* it lies on 4 January after a Saturday or Sunday and on 3 January after  *)
(* a Monday; from 1974 on that is the first Monday-to-Friday date after    *)
(* 2 January that is not the date of New Year's Day or of its observed     *)
(* substitute.                                                             *)
(***************************************************************************)
C8_NewYearHolidayObserved ==
    observed /\ subdiv \in {"UK", "Scotland"} =>
        \A y \in populated :
            LET jan2 == date(y, JAN, 2)
                obs == DatesNamed(y, Observed(Decorated("New Year Holiday",
                                                        " [Scotland]", subdiv)))
            IN  /\ obs = IF weekday(jan2) \in WEEKEND THEN {date(y, JAN, 4)}
                         ELSE IF weekday(jan2) = MON THEN {date(y, JAN, 3)}
                         ELSE {}
                /\ y >= 1974 /\ obs # {} => obs = {FirstFreeWeekdayAfter(jan2, 7)}

C8_Witness ==
    /\ observed
    /\ subdiv = "Scotland"
    /\ \E y \in populated :
          /\ y >= 1974
          /\ weekday(date(y, JAN, 2)) = SUN
          /\ hol[date(y, JAN, 3)] = <<"New Year's Day", " (Observed)">>
          /\ hol[date(y, JAN, 4)] = <<"New Year Holiday", " (Observed)">>

(***************************************************************************)
(* C9.  With observed set, Christmas Day and Boxing Day and their          *)
(* substitutes never overwrite one another: 25 and 26 December keep the    *)
(* raw names, 27 and 28 December hold only the respective "(Observed)"     *)
(* names and do so whenever the raw date is on a weekend, and exactly two  *)
(* of the dates 25..28 December in the mapping are Monday to Friday.       *)
(***************************************************************************)
C9_ChristmasBoxing ==
    observed =>
        \A y \in populated :
            /\ hol[date(y, DEC, 25)] = <<"Christmas Day">>
            /\ hol[date(y, DEC, 26)] = <<"Boxing Day">>
            /\ date(y, DEC, 27) \in DOMAIN hol <=>
                   weekday(date(y, DEC, 25)) \in WEEKEND
            /\ date(y, DEC, 28) \in DOMAIN hol <=>
                   weekday(date(y, DEC, 26)) \in WEEKEND
            /\ date(y, DEC, 27) \in DOMAIN hol =>
                   hol[date(y, DEC, 27)] = <<"Christmas Day", " (Observed)">>
            /\ date(y, DEC, 28) \in DOMAIN hol =>
                   hol[date(y, DEC, 28)] = <<"Boxing Day", " (Observed)">>
            /\ Cardinality({k \in 25..28 :
                               /\ date(y, DEC, k) \in DOMAIN hol
                               /\ weekday(date(y, DEC, k)) \in MON..FRI}) = 2

C9_Witness ==
    /\ observed
    /\ \E y \in populated :
          /\ weekday(date(y, DEC, 25)) = SAT
          /\ hol[date(y, DEC, 27)] = <<"Christmas Day", " (Observed)">>
          /\ hol[date(y, DEC, 28)] = <<"Boxing Day", " (Observed)">>

(***************************************************************************)
(* C10.  Every entry whose name ends in "(Observed)" lies on a Monday to   *)
(* Friday of a populated year, in the same year as the raw date of the     *)
(* holiday it substitutes, and one or two days after that raw date.        *)
(***************************************************************************)
C10_ObservedPlacement ==
    \A d \in DOMAIN hol :
        IsObserved(hol[d]) =>
            LET raw == RawDate(hol[d][1], d[1])
            IN  /\ weekday(d) \in MON..FRI
                /\ d[1] \in populated
                /\ toordinal(d) - toordinal(raw) \in 1..2

C10_Witness ==
    /\ subdiv = "England"
    /\ \E d \in DOMAIN hol :
          /\ hol[d] = <<"New Year's Day", " (Observed)">>
          /\ weekday(date(d[1], JAN, 1)) = SAT
          /\ d = date(d[1], JAN, 3)

====
